---------------------------- MODULE Spec2Model ----------------------------
(***************************************************************************)
(* State-machine model of src/final.py: the camera/LED/button controller.  *)
(*                                                                         *)
(* Threads of the program:                                                 *)
(*   SM        the shutdown_monitor daemon thread                          *)
(*   MC        the monitor_client daemon thread                            *)
(*   Workers   Flask request threads, capture threads and gpiozero         *)
(*             callback threads; each runs one handler at a time           *)
(*   Blinkers  the threads blink() spawns with target blink_led            *)
(* pc[t] is the source line thread t is about to execute.                  *)
(*                                                                         *)
(* Time: "now" is the wall clock in seconds (time.time(), datetime.now()). *)
(* It moves in steps of Quantum; the two evaluator loops sleep at least    *)
(* their interval and run one tick at every instant of the clock.  The     *)
(* clock moves only while every other thread is idle, blocked on the       *)
(* camera, in a camera call or in a sleep; the sub-second sleeps (0.1,     *)
(* 0.2, 0.5 s) may or may not span a step of the clock.                    *)
(***************************************************************************)
EXTENDS Integers, FiniteSets, Sequences, TLC

\* ---- program constants ----
T_idle      == 300   \* idle threshold, seconds
T_shutdown  == 900   \* shutdown threshold, seconds
T_timeout   == 60    \* timeout_duration, seconds
SmInterval  == 5     \* time.sleep(5) in shutdown_monitor
McInterval  == 25    \* time.sleep(25) in monitor_client
BlinkCount  == 6     \* range(6) in blink_led
WarnCount   == 5     \* range(5) in shutdown_monitor

\* ---- bounds of the model ----
Quantum        == 150   \* seconds between two instants of the clock
MaxNow         == 1200  \* the clock stops here (Spec)
MaxEpisodeNow  == 1500  \* the clock stops here (SpecEpisodes)

\* ---- threads ----
SM        == <<"sm", 1>>
MC        == <<"mc", 1>>
NoThread  == <<"none", 0>>
Workers   == {<<"w", 1>>, <<"w", 2>>, <<"w", 3>>}
Blinkers  == {<<"b", 1>>, <<"b", 2>>}
Threads   == {SM, MC} \cup Workers \cup Blinkers

None == -1   \* client_status['last_ping'] = None

VARIABLES
    now,              \* the wall clock
    timer,            \* global timer (line 29)
    client_status,    \* [last_ping, status] (line 30)
    state_lock,       \* holder of state_lock, or NoThread
    camera_lock,      \* holder of camera_lock, or NoThread
    blink_lock,       \* holder of blink_lock, or NoThread
    led1, led2, ledc, \* is_active of the three LEDs
    pc,               \* source line of every thread
    ret,              \* where update_timer returns to, per worker
    wake,             \* end of the current time.sleep of SM and MC
    idle_mode_active, \* local of shutdown_monitor
    duration,         \* local of shutdown_monitor
    is_client_active, \* local of shutdown_monitor
    warn_i,           \* iterations done of the warning loop (line 113)
    blink_i,          \* iterations done of the loop of blink_led, per blinker
    success,          \* local of capture_image: result of autofocus_cycle
    still,            \* outcome of camera.capture_file in capture_image
    po_timer,         \* the threading.Timer of poweroff_route is pending
    shutting_down,    \* a power-off command succeeded: the OS is going down
    halted,           \* the OS has killed the process
    poweroffs,        \* history: power-off commands issued by shutdown_monitor
    forced,           \* history: idle forcings inside the current idle episode
    ping_time,        \* history: time of the last ping(), or None
    late_trigger      \* history: blinkers spawned while a sequence was running

shared  == <<timer, client_status>>
locks   == <<state_lock, camera_lock, blink_lock>>
leds    == <<led1, led2, ledc>>
smloc   == <<idle_mode_active, duration, is_client_active, warn_i>>
caploc  == <<success, still>>
env     == <<po_timer, shutting_down, halted>>
hist    == <<poweroffs, forced, ping_time, late_trigger>>
vars    == <<now, shared, locks, leds, pc, ret, wake, smloc, blink_i, caploc,
             env, hist>>

\* ---- helpers ----
\* threading.Lock: free when nobody holds it
Free(lock) == lock = NoThread

\* a thread runs only while the process lives
Runs(t, line) == ~halted /\ pc[t] = line

Goto(t, line) == pc' = [pc EXCEPT ![t] = line]

\* an idle episode: idleDuration is above T_idle
InIdleEpisode == now - timer > T_idle

Init ==
    /\ now = 0
    /\ timer = 0
    /\ client_status = [last_ping |-> None, status |-> FALSE]
    /\ state_lock = NoThread
    /\ camera_lock = NoThread
    /\ blink_lock = NoThread
    /\ led1 = TRUE
    /\ led2 = TRUE
    /\ ledc = FALSE
    /\ pc = [t \in Threads |->
                IF t = SM THEN "sm_103"
                ELSE IF t = MC THEN "mc_90"
                ELSE IF t \in Workers THEN "idle" ELSE "done"]
    /\ ret = [w \in Workers |-> "idle"]
    /\ wake = [t \in {SM, MC} |-> IF t = SM THEN SmInterval ELSE McInterval]
    /\ idle_mode_active = FALSE
    /\ duration = 0
    /\ is_client_active = FALSE
    /\ warn_i = 0
    /\ blink_i = [b \in Blinkers |-> 0]
    /\ success = [w \in Workers |-> "none"]
    /\ still = [w \in Workers |-> "none"]
    /\ po_timer = FALSE
    /\ shutting_down = FALSE
    /\ halted = FALSE
    /\ poweroffs = 0
    /\ forced = 0
    /\ ping_time = None
    /\ late_trigger = {}


\* ------------------------------------------------------------------------
\* update_timer (lines 62-66), called by ping, capture_image, the toggle
\* routes and the button callbacks; ret[w] is the caller's next line.
\* ------------------------------------------------------------------------
\* line 65: with state_lock (acquire)
ut_65(w) ==
    /\ Runs(w, "ut_65")
    /\ Free(state_lock)
    /\ state_lock' = w
    /\ Goto(w, "ut_66")
    /\ UNCHANGED <<now, shared, camera_lock, blink_lock, leds, ret, wake,
                   smloc, blink_i, caploc, env, hist>>

\* line 66: timer = time.time(); leaving the with block releases the lock
ut_66(w) ==
    /\ Runs(w, "ut_66")
    /\ timer' = now
    /\ state_lock' = NoThread
    /\ Goto(w, ret[w])
    /\ ret' = [ret EXCEPT ![w] = "idle"]
    /\ forced' = 0
    /\ UNCHANGED <<now, client_status, camera_lock, blink_lock, leds, wake,
                   smloc, blink_i, caploc, env, poweroffs, ping_time,
                   late_trigger>>

update_timer(w) == ut_65(w) \/ ut_66(w)

\* ------------------------------------------------------------------------
\* blink (lines 68-84)
\* ------------------------------------------------------------------------
FreeBlinkers == {b \in Blinkers : pc[b] = "done"}

\* the thread object blink() creates: the free one of lowest number
NewBlinker == CHOOSE b \in FreeBlinkers : \A c \in FreeBlinkers : b[2] <= c[2]

\* mutant of try_blink_lock: the attempt succeeds whoever holds the lock
try_blink_lock_always(b) == TRUE

\* line 72: blink_lock.acquire(blocking=False)
try_blink_lock(b) == Free(blink_lock)

\* lines 72-73: take the lock, or return at once when it is held
blink_72(b) ==
    /\ Runs(b, "blink_72")
    /\ IF try_blink_lock(b)
       THEN /\ blink_lock' = b
            /\ Goto(b, "blink_77")
            /\ blink_i' = [blink_i EXCEPT ![b] = 0]
            /\ UNCHANGED late_trigger
       ELSE /\ Goto(b, "done")
            /\ late_trigger' = late_trigger \ {b}
            /\ UNCHANGED <<blink_lock, blink_i>>
    /\ UNCHANGED <<now, shared, state_lock, camera_lock, leds, ret, wake,
                   smloc, caploc, env, poweroffs, forced, ping_time>>

\* lines 77-78: ledc.on(); time.sleep(0.2)
blink_77(b) ==
    /\ Runs(b, "blink_77")
    /\ ledc' = TRUE
    /\ Goto(b, "blink_79")
    /\ UNCHANGED <<now, shared, locks, led1, led2, ret, wake, smloc, blink_i,
                   caploc, env, hist>>

\* lines 79-80: ledc.off(); time.sleep(0.2); next iteration or leave the loop
blink_79(b) ==
    /\ Runs(b, "blink_79")
    /\ ledc' = FALSE
    /\ blink_i' = [blink_i EXCEPT ![b] = @ + 1]
    /\ Goto(b, IF blink_i[b] + 1 < BlinkCount THEN "blink_77" ELSE "blink_82")
    /\ UNCHANGED <<now, shared, locks, led1, led2, ret, wake, smloc, caploc,
                   env, hist>>

\* line 82: finally: blink_lock.release()
blink_82(b) ==
    /\ Runs(b, "blink_82")
    /\ blink_lock' = NoThread
    /\ Goto(b, "done")
    /\ blink_i' = [blink_i EXCEPT ![b] = 0]   \* the thread and its locals end
    /\ late_trigger' = late_trigger \ {b}
    /\ UNCHANGED <<now, shared, state_lock, camera_lock, leds, ret, wake,
                   smloc, caploc, env, poweroffs, forced, ping_time>>

blink_led(b) == blink_72(b) \/ blink_77(b) \/ blink_79(b) \/ blink_82(b)

\* a blink sequence is in progress in thread b
InSequence(b) == pc[b] \in {"blink_77", "blink_79", "blink_82"}

\* ------------------------------------------------------------------------
\* ping (lines 167-174)
\* ------------------------------------------------------------------------
\* the /ping request arrives
ping_start(w) ==
    /\ Runs(w, "idle")
    /\ Goto(w, "ping_169")
    /\ UNCHANGED <<now, shared, locks, leds, ret, wake, smloc, blink_i,
                   caploc, env, hist>>

\* line 169: with state_lock (acquire)
ping_169(w) ==
    /\ Runs(w, "ping_169")
    /\ Free(state_lock)
    /\ state_lock' = w
    /\ Goto(w, "ping_170")
    /\ UNCHANGED <<now, shared, camera_lock, blink_lock, leds, ret, wake,
                   smloc, blink_i, caploc, env, hist>>

\* lines 170-171: last_ping = now, status = True; release
ping_170(w) ==
    /\ Runs(w, "ping_170")
    /\ client_status' = [last_ping |-> now, status |-> TRUE]
    /\ state_lock' = NoThread
    /\ ping_time' = now
    /\ Goto(w, "ping_172")
    /\ UNCHANGED <<now, timer, camera_lock, blink_lock, leds, ret, wake,
                   smloc, blink_i, caploc, env, poweroffs, forced,
                   late_trigger>>

\* line 172: blink() starts a thread on blink_led (line 84);
\* line 173: update_timer() is called next, line 174 returns after it
ping_172(w) ==
    /\ Runs(w, "ping_172")
    /\ FreeBlinkers # {}
    /\ pc' = [pc EXCEPT ![w] = "ut_65", ![NewBlinker] = "blink_72"]
    /\ ret' = [ret EXCEPT ![w] = "idle"]
    /\ late_trigger' = IF \E b \in Blinkers : InSequence(b)
                       THEN late_trigger \cup {NewBlinker}
                       ELSE late_trigger
    /\ UNCHANGED <<now, shared, locks, leds, wake, smloc, blink_i, caploc,
                   env, poweroffs, forced, ping_time>>

ping(w) == ping_start(w) \/ ping_169(w) \/ ping_170(w) \/ ping_172(w)

\* ------------------------------------------------------------------------
\* monitor_client (lines 86-95)
\* ------------------------------------------------------------------------
\* lines 90-91: time.sleep(25) is over; with state_lock (acquire)
mc_90 ==
    /\ Runs(MC, "mc_90")
    /\ now >= wake[MC]
    /\ Free(state_lock)
    /\ state_lock' = MC
    /\ Goto(MC, "mc_92")
    /\ UNCHANGED <<now, shared, camera_lock, blink_lock, leds, ret, wake,
                   smloc, blink_i, caploc, env, hist>>

\* mutant of timed_out: the comparison is the wrong way round
timed_out_inverted ==
    /\ client_status.last_ping # None
    /\ now - client_status.last_ping < T_timeout

\* mutant of timed_out: the age of the ping is compared with the idle threshold
timed_out_idle_threshold ==
    /\ client_status.last_ping # None
    /\ now - client_status.last_ping > T_idle

\* lines 92-93: the client has timed out
timed_out == /\ client_status.last_ping # None
             /\ now - client_status.last_ping > T_timeout

\* lines 92-95: demote the client; release; sleep again
mc_92 ==
    /\ Runs(MC, "mc_92")
    /\ client_status' = IF timed_out
                        THEN [client_status EXCEPT !.status = FALSE]
                        ELSE client_status
    /\ state_lock' = NoThread
    /\ Goto(MC, "mc_90")
    /\ wake' = [wake EXCEPT ![MC] = now + McInterval]
    /\ UNCHANGED <<now, timer, camera_lock, blink_lock, leds, ret, smloc,
                   blink_i, caploc, env, hist>>

monitor_client == mc_90 \/ mc_92

\* ------------------------------------------------------------------------
\* shutdown_monitor (lines 97-128)
\* ------------------------------------------------------------------------
\* lines 103-104: time.sleep(5) is over; with state_lock (acquire)
sm_103 ==
    /\ Runs(SM, "sm_103")
    /\ now >= wake[SM]
    /\ Free(state_lock)
    /\ state_lock' = SM
    /\ Goto(SM, "sm_105")
    /\ UNCHANGED <<now, shared, camera_lock, blink_lock, leds, ret, wake,
                   smloc, blink_i, caploc, env, hist>>

\* lines 105-107: read the clock, the timer and the client status; release
sm_105 ==
    /\ Runs(SM, "sm_105")
    /\ duration' = now - timer
    /\ is_client_active' = client_status.status
    /\ state_lock' = NoThread
    /\ Goto(SM, "sm_110")
    /\ UNCHANGED <<now, shared, camera_lock, blink_lock, leds, ret, wake,
                   idle_mode_active, warn_i, blink_i, caploc, env, hist>>

\* mutant of shutdown_due: the "not" is missing
shutdown_due_inverted == duration > T_shutdown /\ is_client_active

\* line 110: the shutdown condition, on the values read at lines 105-107
shutdown_due == duration > T_shutdown /\ ~is_client_active

\* line 110: if duration > 900 and not is_client_active
sm_110 ==
    /\ Runs(SM, "sm_110")
    /\ Goto(SM, IF shutdown_due THEN "sm_114" ELSE "sm_120")
    /\ UNCHANGED <<now, shared, locks, leds, ret, wake, smloc, blink_i,
                   caploc, env, hist>>

\* lines 113-116: one iteration of the warning blink
sm_114 ==
    /\ Runs(SM, "sm_114")
    /\ led1' = ~led1
    /\ led2' = ~led2
    /\ warn_i' = warn_i + 1
    /\ Goto(SM, IF warn_i + 1 < WarnCount THEN "sm_114" ELSE "sm_117")
    /\ UNCHANGED <<now, shared, locks, ledc, ret, wake, idle_mode_active,
                   duration, is_client_active, blink_i, caploc, env, hist>>

\* line 117: check_call(['sudo', 'poweroff']).  The command returns 0 and the
\* OS starts to shut down, or it fails and check_call raises
\* CalledProcessError, which nothing catches: the thread ends.
sm_117 ==
    /\ Runs(SM, "sm_117")
    /\ poweroffs' = poweroffs + 1
    /\ \E ok \in BOOLEAN :
          IF ok THEN /\ shutting_down' = TRUE
                     /\ Goto(SM, "sm_120")
                ELSE /\ Goto(SM, "sm_dead")
                     /\ UNCHANGED shutting_down
    /\ UNCHANGED <<now, shared, locks, leds, ret, wake, smloc, blink_i,
                   caploc, po_timer, halted, forced, ping_time, late_trigger>>

\* line 120: the idle condition, on the duration read at line 106
idle_due == duration > T_idle

\* mutant of sm_120: the return to Active switches the status LEDs on again
sm_120_restores ==
    /\ Runs(SM, "sm_120")
    /\ IF duration > T_idle
       THEN IF ~idle_mode_active
            THEN /\ led1' = FALSE
                 /\ led2' = FALSE
                 /\ idle_mode_active' = TRUE
                 /\ forced' = IF InIdleEpisode THEN forced + 1 ELSE forced
            ELSE UNCHANGED <<led1, led2, idle_mode_active, forced>>
       ELSE /\ idle_mode_active' = FALSE
            /\ led1' = (led1 \/ idle_mode_active)
            /\ led2' = (led2 \/ idle_mode_active)
            /\ UNCHANGED forced
    /\ duration' = 0
    /\ is_client_active' = FALSE
    /\ warn_i' = 0
    /\ wake' = [wake EXCEPT ![SM] = now + SmInterval]
    /\ Goto(SM, "sm_103")
    /\ UNCHANGED <<now, shared, locks, ledc, ret, blink_i, caploc, env,
                   poweroffs, ping_time, late_trigger>>

\* lines 120-128: force the status LEDs off once, or clear the idle flag;
\* then line 103: time.sleep(5).  duration, is_client_active and the loop
\* counter are dead until the next tick assigns them.
sm_120 ==
    /\ Runs(SM, "sm_120")
    /\ IF idle_due
       THEN IF ~idle_mode_active
            THEN /\ led1' = FALSE
                 /\ led2' = FALSE
                 /\ idle_mode_active' = TRUE
                 /\ forced' = IF InIdleEpisode THEN forced + 1 ELSE forced
            ELSE UNCHANGED <<led1, led2, idle_mode_active, forced>>
       ELSE /\ idle_mode_active' = FALSE
            /\ UNCHANGED <<led1, led2, forced>>
    /\ duration' = 0
    /\ is_client_active' = FALSE
    /\ warn_i' = 0
    /\ wake' = [wake EXCEPT ![SM] = now + SmInterval]
    /\ Goto(SM, "sm_103")
    /\ UNCHANGED <<now, shared, locks, ledc, ret, blink_i, caploc, env,
                   poweroffs, ping_time, late_trigger>>

shutdown_monitor == sm_103 \/ sm_105 \/ sm_110 \/ sm_114 \/ sm_117 \/ sm_120

\* ------------------------------------------------------------------------
\* the clock and the operating system
\* ------------------------------------------------------------------------
\* an evaluator loop that sleeps and is not yet due, or has ended
Asleep(t) == \/ pc[t] = "sm_dead"
             \/ pc[t] \in {"sm_103", "mc_90"} /\ wake[t] > now

\* a request, callback or blink thread at a point where time passes: no
\* request (idle), no thread (done), blocked on camera_lock, inside a camera
\* or encoder call, suspended at the yield, or in one of the short sleeps.
\* Everywhere else it runs a few statements, or waits for state_lock, which
\* is only ever held for a few statements.
Pausing(t) ==
    pc[t] \in {"idle", "done",
               "cap_144", "cap_148", "cap_155", "cap_162",
               "gen_257", "gen_258", "gen_261", "gen_265", "gen_270",
               "blink_77", "blink_79", "blink_82"}

\* the clock moves on once both evaluators have done their tick of this
\* instant and no other thread is in the middle of a few statements
Tick(limit) ==
    /\ ~halted
    /\ now + Quantum <= limit
    /\ Asleep(SM) /\ Asleep(MC)
    /\ \A t \in Workers \cup Blinkers : Pausing(t)
    /\ now' = now + Quantum
    /\ UNCHANGED <<shared, locks, leds, pc, ret, wake, smloc, blink_i,
                   caploc, env, hist>>

Advance == Tick(MaxNow)

AdvanceEpisodes == Tick(MaxEpisodeNow)

\* after a successful power-off command the OS kills the process, some time
\* later
Halt ==
    /\ shutting_down /\ ~halted
    /\ halted' = TRUE
    /\ UNCHANGED <<now, shared, locks, leds, pc, ret, wake, smloc, blink_i,
                   caploc, po_timer, shutting_down, hist>>

\* ------------------------------------------------------------------------
\* capture_image (lines 130-163): run by the thread trigger_capture starts
\* (line 183) and by the capture button's when_held callback (line 289)
\* ------------------------------------------------------------------------
\* the capture thread or the callback starts
cap_start(w) ==
    /\ Runs(w, "idle")
    /\ Goto(w, "cap_132")
    /\ UNCHANGED <<now, shared, locks, leds, ret, wake, smloc, blink_i,
                   caploc, env, hist>>

\* line 132: with state_lock (acquire)
cap_132(w) ==
    /\ Runs(w, "cap_132")
    /\ Free(state_lock)
    /\ state_lock' = w
    /\ Goto(w, "cap_133")
    /\ UNCHANGED <<now, shared, camera_lock, blink_lock, leds, ret, wake,
                   smloc, blink_i, caploc, env, hist>>

\* mutant of cap_133: the capture marks the client connected as ping does
cap_133_connects(w) ==
    /\ Runs(w, "cap_133")
    /\ client_status' = [last_ping |-> now, status |-> TRUE]
    /\ state_lock' = NoThread
    /\ Goto(w, "ut_65")
    /\ ret' = [ret EXCEPT ![w] = "cap_136"]
    /\ UNCHANGED <<now, timer, camera_lock, blink_lock, leds, wake, smloc,
                   blink_i, caploc, env, hist>>

\* mutant of cap_133: update_timer() is called inside the with state_lock
\* block
cap_133_nested(w) ==
    /\ Runs(w, "cap_133")
    /\ client_status' = [client_status EXCEPT !.last_ping = now]
    /\ Goto(w, "ut_65")
    /\ ret' = [ret EXCEPT ![w] = "cap_136"]
    /\ UNCHANGED <<now, timer, locks, leds, wake, smloc, blink_i, caploc,
                   env, hist>>

\* line 133: last_ping = datetime.now(); release; line 135: update_timer()
cap_133(w) ==
    /\ Runs(w, "cap_133")
    /\ client_status' = [client_status EXCEPT !.last_ping = now]
    /\ state_lock' = NoThread
    /\ Goto(w, "ut_65")
    /\ ret' = [ret EXCEPT ![w] = "cap_136"]
    /\ UNCHANGED <<now, timer, camera_lock, blink_lock, leds, wake, smloc,
                   blink_i, caploc, env, hist>>

\* line 136: ledc.on()
cap_136(w) ==
    /\ Runs(w, "cap_136")
    /\ ledc' = TRUE
    /\ Goto(w, "cap_144")
    /\ UNCHANGED <<now, shared, locks, led1, led2, ret, wake, smloc, blink_i,
                   caploc, env, hist>>

\* line 144: with camera_lock (acquire, blocking)
cap_144(w) ==
    /\ Runs(w, "cap_144")
    /\ Free(camera_lock)
    /\ camera_lock' = w
    /\ Goto(w, "cap_148")
    /\ UNCHANGED <<now, shared, state_lock, blink_lock, leds, ret, wake,
                   smloc, blink_i, caploc, env, hist>>

\* what camera.autofocus_cycle() can do: return True, return False, raise
AutofocusOutcomes == {"ok", "failed", "raised"}

\* mutant of cap_148: a False result aborts the capture like an exception
cap_148_abort(w) ==
    /\ Runs(w, "cap_148")
    /\ \E r \in {"ok", "failed", "raised"} :
          /\ success' = [success EXCEPT ![w] = r]
          /\ IF r # "ok"
             THEN /\ camera_lock' = NoThread
                  /\ Goto(w, "cap_162")
             ELSE /\ Goto(w, "cap_155")
                  /\ UNCHANGED camera_lock
    /\ UNCHANGED <<now, shared, state_lock, blink_lock, leds, ret, wake,
                   smloc, blink_i, still, env, hist>>

\* lines 148-152: success = camera.autofocus_cycle().  A False result is only
\* logged.  An exception leaves the with block (the lock is released) and is
\* caught at line 159; control reaches the finally block.
cap_148(w) ==
    /\ Runs(w, "cap_148")
    /\ \E r \in AutofocusOutcomes :
          /\ success' = [success EXCEPT ![w] = r]
          /\ IF r = "raised"
             THEN /\ camera_lock' = NoThread
                  /\ Goto(w, "cap_162")
             ELSE /\ Goto(w, "cap_155")
                  /\ UNCHANGED camera_lock
    /\ UNCHANGED <<now, shared, state_lock, blink_lock, leds, ret, wake,
                   smloc, blink_i, still, env, hist>>

\* what camera.capture_file(path) can do: return, raise
CaptureOutcomes == {"ok", "raised"}

\* mutant of cap_155: the lock is released by hand after the call, so an
\* exception skips the release
cap_155_leak(w) ==
    /\ Runs(w, "cap_155")
    /\ \E r \in {"ok", "raised"} :
          /\ still' = [still EXCEPT ![w] = r]
          /\ camera_lock' = IF r = "ok" THEN NoThread ELSE camera_lock
    /\ Goto(w, "cap_162")
    /\ UNCHANGED <<now, shared, state_lock, blink_lock, leds, ret, wake,
                   smloc, blink_i, success, env, hist>>

\* mutant of cap_155: ledc.off() is called at the end of the with block,
\* before the lock is released
cap_155_led_off_inside(w) ==
    /\ Runs(w, "cap_155")
    /\ \E r \in {"ok", "raised"} : still' = [still EXCEPT ![w] = r]
    /\ ledc' = FALSE
    /\ camera_lock' = NoThread
    /\ Goto(w, "cap_162")
    /\ UNCHANGED <<now, shared, state_lock, blink_lock, led1, led2, ret, wake,
                   smloc, blink_i, success, env, hist>>

\* line 155: camera.capture_file(path); the with block ends either way
\* (release); an exception is caught at line 159
cap_155(w) ==
    /\ Runs(w, "cap_155")
    /\ \E r \in CaptureOutcomes : still' = [still EXCEPT ![w] = r]
    /\ camera_lock' = NoThread
    /\ Goto(w, "cap_162")
    /\ UNCHANGED <<now, shared, state_lock, blink_lock, leds, ret, wake,
                   smloc, blink_i, success, env, hist>>

\* mutant of cap_162: ledc.off() is missing from the finally block
cap_162_no_off(w) ==
    /\ Runs(w, "cap_162")
    /\ success' = [success EXCEPT ![w] = "none"]
    /\ still' = [still EXCEPT ![w] = "none"]
    /\ Goto(w, "idle")
    /\ UNCHANGED <<now, shared, locks, leds, ret, wake, smloc, blink_i,
                   env, hist>>

\* lines 162-163: finally: time.sleep(0.5); ledc.off(); the function returns
\* and its locals end
cap_162(w) ==
    /\ Runs(w, "cap_162")
    /\ ledc' = FALSE
    /\ success' = [success EXCEPT ![w] = "none"]
    /\ still' = [still EXCEPT ![w] = "none"]
    /\ Goto(w, "idle")
    /\ UNCHANGED <<now, shared, locks, led1, led2, ret, wake, smloc, blink_i,
                   env, hist>>

capture_image(w) ==
    \/ cap_start(w) \/ cap_132(w) \/ cap_133(w) \/ cap_136(w)
    \/ cap_144(w) \/ cap_148(w) \/ cap_155(w) \/ cap_162(w)

\* ------------------------------------------------------------------------
\* generate_frames (lines 254-271), driven by the thread that serves
\* /video_feed (line 278)
\* ------------------------------------------------------------------------
\* a stream connection is opened and the first frame is asked for
gen_start(w) ==
    /\ Runs(w, "idle")
    /\ Goto(w, "gen_257")
    /\ UNCHANGED <<now, shared, locks, leds, ret, wake, smloc, blink_i,
                   caploc, env, hist>>

\* mutant of gen_257: the frame is grabbed without waiting for the lock
gen_257_unguarded(w) ==
    /\ Runs(w, "gen_257")
    /\ camera_lock' = w
    /\ Goto(w, "gen_258")
    /\ UNCHANGED <<now, shared, state_lock, blink_lock, leds, ret, wake,
                   smloc, blink_i, caploc, env, hist>>

\* line 257: with camera_lock (acquire, blocking)
gen_257(w) ==
    /\ Runs(w, "gen_257")
    /\ Free(camera_lock)
    /\ camera_lock' = w
    /\ Goto(w, "gen_258")
    /\ UNCHANGED <<now, shared, state_lock, blink_lock, leds, ret, wake,
                   smloc, blink_i, caploc, env, hist>>

\* what camera.capture_array() can do: a frame, None, raise
FrameOutcomes == {"frame", "none", "raised"}

\* mutant of gen_258: encoding and yield are inside the with block, the lock
\* is kept after the frame grab
gen_258_holds(w) ==
    /\ Runs(w, "gen_258")
    /\ \E r \in {"frame", "none", "raised"} :
          /\ Goto(w, CASE r = "frame" -> "gen_265"
                       [] r = "none" -> "gen_261"
                       [] r = "raised" -> "idle")
          /\ camera_lock' = IF r = "frame" THEN camera_lock ELSE NoThread
    /\ UNCHANGED <<now, shared, state_lock, blink_lock, leds, ret, wake,
                   smloc, blink_i, caploc, env, hist>>

\* line 258: frame = camera.capture_array(); the with block ends (release);
\* line 260: a None frame sleeps 0.1 s; an exception ends the generator
gen_258(w) ==
    /\ Runs(w, "gen_258")
    /\ camera_lock' = NoThread
    /\ \E r \in FrameOutcomes :
          Goto(w, CASE r = "frame" -> "gen_265"
                    [] r = "none" -> "gen_261"
                    [] r = "raised" -> "idle")
    /\ UNCHANGED <<now, shared, state_lock, blink_lock, leds, ret, wake,
                   smloc, blink_i, caploc, env, hist>>

\* lines 261-262: time.sleep(0.1); continue
gen_261(w) ==
    /\ Runs(w, "gen_261")
    /\ Goto(w, "gen_257")
    /\ UNCHANGED <<now, shared, locks, leds, ret, wake, smloc, blink_i,
                   caploc, env, hist>>

\* lines 265-270: cv2.imencode; not ret: continue; else yield the frame
gen_265(w) ==
    /\ Runs(w, "gen_265")
    /\ \E encoded \in BOOLEAN :
          Goto(w, IF encoded THEN "gen_270" ELSE "gen_257")
    /\ UNCHANGED <<now, shared, locks, leds, ret, wake, smloc, blink_i,
                   caploc, env, hist>>

\* line 270: suspended at the yield; the consumer asks for the next frame,
\* or disconnects and the generator is closed
gen_270(w) ==
    /\ Runs(w, "gen_270")
    /\ \E next \in BOOLEAN :
          Goto(w, IF next THEN "gen_257" ELSE "idle")
    /\ UNCHANGED <<now, shared, locks, leds, ret, wake, smloc, blink_i,
                   caploc, env, hist>>

generate_frames(w) ==
    \/ gen_start(w) \/ gen_257(w) \/ gen_258(w) \/ gen_261(w)
    \/ gen_265(w) \/ gen_270(w)

\* a thread is inside a camera section: frame grab, or autofocus + capture
InCamera(t) == pc[t] \in {"gen_258", "cap_148", "cap_155"}

\* ------------------------------------------------------------------------
\* LED toggles: routes (lines 234-244) and button callbacks (lines 285-286)
\* ------------------------------------------------------------------------
\* line 236 or 285: update_timer() first
toggle_led1_start(w) ==
    /\ Runs(w, "idle")
    /\ Goto(w, "ut_65")
    /\ ret' = [ret EXCEPT ![w] = "tog1_237"]
    /\ UNCHANGED <<now, shared, locks, leds, wake, smloc, blink_i, caploc,
                   env, hist>>

\* line 237 or 285: led1.toggle()
tog1_237(w) ==
    /\ Runs(w, "tog1_237")
    /\ led1' = ~led1
    /\ Goto(w, "idle")
    /\ UNCHANGED <<now, shared, locks, led2, ledc, ret, wake, smloc, blink_i,
                   caploc, env, hist>>

\* line 242 or 286: update_timer() first
toggle_led2_start(w) ==
    /\ Runs(w, "idle")
    /\ Goto(w, "ut_65")
    /\ ret' = [ret EXCEPT ![w] = "tog2_243"]
    /\ UNCHANGED <<now, shared, locks, leds, wake, smloc, blink_i, caploc,
                   env, hist>>

\* line 243 or 286: led2.toggle()
tog2_243(w) ==
    /\ Runs(w, "tog2_243")
    /\ led2' = ~led2
    /\ Goto(w, "idle")
    /\ UNCHANGED <<now, shared, locks, led1, ledc, ret, wake, smloc, blink_i,
                   caploc, env, hist>>

toggle_led1_route(w) == toggle_led1_start(w) \/ tog1_237(w)
toggle_led2_route(w) == toggle_led2_start(w) \/ tog2_243(w)

\* line 292: capture_button.when_pressed = update_timer
capture_button_pressed(w) ==
    /\ Runs(w, "idle")
    /\ Goto(w, "ut_65")
    /\ ret' = [ret EXCEPT ![w] = "idle"]
    /\ UNCHANGED <<now, shared, locks, leds, wake, smloc, blink_i, caploc,
                   env, hist>>

\* ------------------------------------------------------------------------
\* status reads (lines 176-178, 222-232) and poweroff_route (lines 246-250)
\* ------------------------------------------------------------------------
\* a status request arrives
status_start(w) ==
    /\ Runs(w, "idle")
    /\ Goto(w, "status_read")
    /\ UNCHANGED <<now, shared, locks, leds, ret, wake, smloc, blink_i,
                   caploc, env, hist>>

\* mutant of status_read: the status route touches the clock like a toggle
status_read_touches(w) ==
    /\ Runs(w, "status_read")
    /\ timer' = now
    /\ Goto(w, "idle")
    /\ UNCHANGED <<now, client_status, locks, leds, ret, wake, smloc, blink_i,
                   caploc, env, hist>>

\* lines 178, 224, 228, 232: return jsonify(...) of constants and is_active
status_read(w) ==
    /\ Runs(w, "status_read")
    /\ Goto(w, "idle")
    /\ UNCHANGED <<now, shared, locks, leds, ret, wake, smloc, blink_i,
                   caploc, env, hist>>

status_route(w) == status_start(w) \/ status_read(w)

\* lines 249-250: threading.Timer(1.0, ...).start(); return
poweroff_route(w) ==
    /\ Runs(w, "idle")
    /\ ~po_timer
    /\ po_timer' = TRUE
    /\ UNCHANGED <<now, shared, locks, leds, pc, ret, wake, smloc, blink_i,
                   caploc, shutting_down, halted, hist>>

\* line 249: the timer thread runs check_call(['sudo', 'poweroff'])
poweroff_timer ==
    /\ ~halted
    /\ po_timer
    /\ po_timer' = FALSE
    /\ \E ok \in BOOLEAN : shutting_down' = (shutting_down \/ ok)
    /\ UNCHANGED <<now, shared, locks, leds, pc, ret, wake, smloc, blink_i,
                   caploc, halted, hist>>

\* ------------------------------------------------------------------------
\* the device after T_shutdown seconds in which nobody touched it: the idle
\* forcing has switched the status LEDs off, no power-off was due yet (the
\* duration is not above T_shutdown), both evaluators are due.  A client may
\* have pinged once, right at the start, and has been timed out since.
\* ------------------------------------------------------------------------
InitIdle ==
    /\ now = T_shutdown
    /\ timer = 0
    /\ \E lp \in {None, 0} :
          /\ client_status = [last_ping |-> lp, status |-> FALSE]
          /\ ping_time = lp
    /\ state_lock = NoThread
    /\ camera_lock = NoThread
    /\ blink_lock = NoThread
    /\ led1 = FALSE
    /\ led2 = FALSE
    /\ ledc = FALSE
    /\ pc = [t \in Threads |->
                IF t = SM THEN "sm_103"
                ELSE IF t = MC THEN "mc_90"
                ELSE IF t \in Workers THEN "idle" ELSE "done"]
    /\ ret = [w \in Workers |-> "idle"]
    /\ wake = [t \in {SM, MC} |->
                 T_shutdown - Quantum + (IF t = SM THEN SmInterval ELSE McInterval)]
    /\ idle_mode_active = TRUE
    /\ duration = 0
    /\ is_client_active = FALSE
    /\ warn_i = 0
    /\ blink_i = [b \in Blinkers |-> 0]
    /\ success = [w \in Workers |-> "none"]
    /\ still = [w \in Workers |-> "none"]
    /\ po_timer = FALSE
    /\ shutting_down = FALSE
    /\ halted = FALSE
    /\ poweroffs = 0
    /\ forced = 1
    /\ late_trigger = {}

\* ------------------------------------------------------------------------
\* specifications
\* ------------------------------------------------------------------------
\* Spec: the power and liveness side.  Both evaluators, the clock, and one
\* request thread that runs the handlers which write the shared state; the
\* blink threads that ping starts get as far as their lock attempt.
Handler == <<"w", 1>>

Next ==
    \/ shutdown_monitor
    \/ monitor_client
    \/ Advance
    \/ Halt
    \/ ping(Handler)
    \/ capture_image(Handler)
    \/ update_timer(Handler)
    \/ toggle_led1_route(Handler)
    \/ toggle_led2_route(Handler)
    \/ capture_button_pressed(Handler)
    \/ status_route(Handler)
    \/ \E b \in Blinkers : blink_72(b)

Spec == InitIdle /\ [][Next]_vars

\* SpecCamera: the camera side.  Every worker streams or captures.
NextCamera ==
    \E w \in Workers : capture_image(w) \/ update_timer(w) \/ generate_frames(w)

SpecCamera == Init /\ [][NextCamera]_vars

\* SpecBlink: the indicator LED.  Two request threads ping, every blink
\* thread runs its whole sequence.
Pingers == {<<"w", 1>>, <<"w", 2>>}

NextBlink ==
    \/ \E w \in Pingers : ping(w) \/ update_timer(w)
    \/ \E b \in Blinkers : blink_led(b)

SpecBlink == Init /\ [][NextBlink]_vars

\* SpecEpisodes: idle episodes from boot on.  Both evaluators, the clock, and
\* a thread on which the capture button is pressed.
NextEpisodes ==
    \/ shutdown_monitor
    \/ monitor_client
    \/ AdvanceEpisodes
    \/ Halt
    \/ capture_button_pressed(Handler)
    \/ update_timer(Handler)

SpecEpisodes == Init /\ [][NextEpisodes]_vars

\* SpecLeds: the status LEDs from boot on.  SpecEpisodes, and the thread also
\* serves the toggle routes (or runs the callbacks of the LED buttons).
NextLeds ==
    \/ NextEpisodes
    \/ toggle_led1_route(Handler)
    \/ toggle_led2_route(Handler)

SpecLeds == Init /\ [][NextLeds]_vars

\* SpecLocks: the three locks.  One tick of each evaluator, of which neither
\* finds the shutdown or the timeout due (the device has been idle for
\* T_shutdown, not longer); one request thread pings and captures, another
\* streams; every blink thread runs its whole sequence.
Streamer == <<"w", 2>>

NextLocks ==
    \/ sm_103 \/ sm_105 \/ sm_110 \/ sm_120
    \/ monitor_client
    \/ ping(Handler) \/ capture_image(Handler) \/ update_timer(Handler)
    \/ generate_frames(Streamer)
    \/ \E b \in Blinkers : blink_led(b)

SpecLocks == InitIdle /\ [][NextLocks]_vars

\* SpecIndicator: the indicator LED with its two users.  Two request threads
\* ping or run capture pipelines, every blink thread runs its whole sequence.
NextIndicator ==
    \/ \E w \in Pingers : ping(w) \/ capture_image(w) \/ update_timer(w)
    \/ \E b \in Blinkers : blink_led(b)

SpecIndicator == Init /\ [][NextIndicator]_vars

\* ------------------------------------------------------------------------
\* properties
\* ------------------------------------------------------------------------

\* C1: at most one thread is inside a camera section (the frame grab of
\* generate_frames, or autofocus + still capture of capture_image) at a time,
\* for every interleaving of the streaming and capturing threads.
C1_OneCameraHolder == Cardinality({t \in Workers : InCamera(t)}) <= 1

\* a capture pipeline is between autofocus and still capture while a stream
\* and another capture pipeline wait for the camera
C1_Witness ==
    \E t, u, v \in Workers :
        /\ pc[t] = "cap_155"
        /\ pc[u] = "gen_257"
        /\ pc[v] = "cap_144"

\* the capture pipeline of w has met a failure of autofocus or still capture
CaptureFailed(w) == success[w] = "raised" \/ still[w] = "raised"

\* C9: when autofocus or still capture fails in capture_image, the thread
\* goes on to the final step (line 162) like a successful run and does not
\* hold the camera lock; the final step switches the indicator LED off and
\* the function returns.
C9_FailureReachesFinally ==
    \A w \in Workers :
        /\ CaptureFailed(w) => pc[w] = "cap_162" /\ camera_lock # w
        /\ still[w] = "ok" => pc[w] = "cap_162" /\ camera_lock # w
        /\ pc[w] = "cap_162" => ENABLED cap_162(w)

\* C9, the last step: whatever the outcome was, the step that leaves line 162
\* switches the indicator LED off, returns, and leaves the camera lock alone
C9_FinalStep ==
    [][\A w \in Workers :
          pc[w] = "cap_162" /\ pc'[w] # "cap_162"
             => pc'[w] = "idle" /\ ~ledc' /\ camera_lock' # w]_vars

\* C9: a failed autofocus or still capture reaches the finally block without
\* the camera lock, in every state, and the step of the finally block ends
\* the pipeline with the indicator LED off.
C9_GuaranteedRelease == []C9_FailureReachesFinally /\ C9_FinalStep

\* a still capture has raised, the thread is in the finally block and does
\* not hold the lock, which another thread has taken meanwhile
C9_Witness ==
    \E w, u \in Workers :
        /\ still[w] = "raised"
        /\ pc[w] = "cap_162"
        /\ camera_lock = u

\* C10: when autofocus_cycle returns False, the still capture is executed in
\* the same hold of the camera lock: the thread is at the capture call with
\* the lock, or the capture call has been made.
C10_FailedFocusStillCaptures ==
    \A w \in Workers :
        success[w] = "failed" =>
            \/ pc[w] = "cap_155" /\ camera_lock = w
            \/ pc[w] = "cap_162" /\ still[w] # "none"

\* autofocus has failed and the still capture has been made all the same
C10_Witness ==
    \E w \in Workers : success[w] = "failed" /\ still[w] = "ok"

\* the step of shutdown_monitor that runs the power-off command (line 117)
PowerOffStep == pc[SM] = "sm_117" /\ pc'[SM] # "sm_117"

\* a step of the warning blink (lines 113-116)
WarningStep == pc[SM] = "sm_114" /\ warn_i' # warn_i

\* the step of monitor_client that checks the age of the last ping
MonitorStep == pc[MC] = "mc_92" /\ pc'[MC] # "mc_92"

\* the step of a ping() that stores last_ping and status (lines 170-171)
PingStep == \E w \in Workers : pc[w] = "ping_170" /\ pc'[w] # "ping_170"

\* C2: the shutdown action of shutdown_monitor (warning blink, then the
\* power-off command) never takes a step while client_status['status'] is
\* true.
C2_NoShutdownWhileConnected ==
    [][(WarningStep \/ PowerOffStep) => ~client_status.status]_vars

\* C3: shutdown_monitor issues the power-off command at most once: the step
\* that issues it is never taken after it has been issued.
C3_ShutdownAtMostOnce == [][PowerOffStep => poweroffs = 0]_vars

\* C4: a tick of shutdown_monitor that has read a duration above T_shutdown
\* with no connected client goes through the warning blink and issues the
\* power-off command: past line 110 it is in the warning loop, at the command
\* after WarnCount iterations, or has issued it.
C4_ShutdownFires ==
    (duration > T_shutdown /\ ~is_client_active) =>
        \/ pc[SM] = "sm_110"
        \/ pc[SM] = "sm_114" /\ warn_i < WarnCount
        \/ pc[SM] = "sm_117" /\ warn_i = WarnCount
        \/ pc[SM] \in {"sm_120", "sm_dead"} /\ warn_i = WarnCount /\ poweroffs >= 1

\* the first tick that saw the shutdown condition has blinked and has issued
\* the one power-off command so far
C4_Witness ==
    /\ pc[SM] = "sm_120"
    /\ duration > T_shutdown /\ ~is_client_active
    /\ warn_i = WarnCount
    /\ poweroffs = 1

\* C5: at the end of every instant of an idle episode (shutdown_monitor has
\* done its tick of this instant) the idle forcing has fired exactly once in
\* this episode, and it never fires twice in one episode.
C5_ForcedOncePerEpisode ==
    /\ forced <= 1
    /\ (InIdleEpisode /\ Asleep(SM)) => forced = 1

\* the blink threads that are inside a blink sequence
Blinking == {b \in Blinkers : InSequence(b)}

\* C6 as stated: at most one blink sequence is in progress, and a blink thread
\* that blink() started while a sequence was in progress never runs a
\* sequence.
C6_LateTriggerDropped ==
    /\ Cardinality(Blinking) <= 1
    /\ \A b \in late_trigger : ~InSequence(b)

\* C6, amended: at most one blink sequence is in progress; the lock attempt
\* of a blink thread never blocks; an attempt made while a sequence is in
\* progress ends the thread at once and leaves the indicator LED and the lock
\* alone.
C6_OneSequence ==
    /\ Cardinality(Blinking) <= 1
    /\ \A b \in Blinkers : pc[b] = "blink_72" => ENABLED blink_72(b)

C6_BusyAttemptStep ==
    [][\A b \in Blinkers :
          (pc[b] = "blink_72" /\ pc'[b] # "blink_72" /\ Blinking # {})
             => pc'[b] = "done" /\ ledc' = ledc /\ blink_lock' = blink_lock]_vars

\* C6, amended: single flight in every state, and every lock attempt made
\* while a sequence is in progress is dropped.
C6_SingleFlight == []C6_OneSequence /\ C6_BusyAttemptStep

\* a sequence is in progress with the LED on, and a thread started during it
\* is about to make its attempt
C6_Witness ==
    \E b, c \in Blinkers :
        /\ pc[b] = "blink_79"
        /\ pc[c] = "blink_72"
        /\ c \in late_trigger

\* C7: client_status['status'] goes from true to false only in the step of
\* monitor_client, and from false to true only in the step of ping() at lines
\* 170-171.
C7_StatusWriters ==
    [][client_status'.status # client_status.status =>
          IF client_status.status THEN MonitorStep ELSE PingStep]_vars

\* a ping of this run has connected the client and monitor_client has
\* disconnected it again
C7_Witness ==
    /\ ~client_status.status
    /\ ping_time >= T_shutdown
    /\ pc[MC] = "mc_90"

\* C8 as stated: the step of ping() sets status to true, and the tick of
\* monitor_client that runs more than T_timeout after the last ping() sets it
\* to false.
C8_TimeoutAfterLastPing ==
    [][/\ PingStep => client_status'.status
       /\ (MonitorStep /\ ping_time # None /\ now - ping_time > T_timeout)
             => ~client_status'.status]_vars

\* C8, amended: the step of ping() sets status to true, and the tick of
\* monitor_client that runs more than T_timeout after last_ping was last
\* stored (by ping() or by capture_image) sets it to false.
C8_TimeoutAfterLastRefresh ==
    [][/\ PingStep => client_status'.status /\ client_status'.last_ping = now
       /\ (MonitorStep /\ client_status.last_ping # None
                       /\ now - client_status.last_ping > T_timeout)
             => ~client_status'.status]_vars

\* the client pinged, no capture followed, and more than T_timeout later the
\* monitor has disconnected it
C8_Witness ==
    /\ ping_time >= T_shutdown
    /\ client_status.last_ping = ping_time
    /\ now - ping_time > T_timeout
    /\ ~client_status.status
    /\ Asleep(MC)

\* a step of a passive status read: the request arrives, or it returns
StatusStep ==
    \E w \in Workers :
        \/ pc[w] = "idle" /\ pc'[w] = "status_read"
        \/ pc[w] = "status_read" /\ pc'[w] # "status_read"

\* C11: a step of a status read (device_status, led1_status, led2_status,
\* uv_status) leaves timer, client_status, the idle flag and the three LEDs
\* as they are, so the durations the evaluators compute are the same with
\* and without it.
C11_StatusReadsPassive ==
    [][StatusStep =>
          /\ UNCHANGED <<timer, client_status, idle_mode_active, led1, led2, ledc>>
          /\ now' - timer' = now - timer]_vars

\* a status read is being served while the shutdown tick, which has read a
\* duration above T_shutdown, is in its warning blink
C11_Witness ==
    /\ pc[Handler] = "status_read"
    /\ pc[SM] = "sm_114"
    /\ duration > T_shutdown

\* C12: the two evaluator threads are inside their loops in every state: no
\* failure of an action of a tick ends shutdown_monitor or monitor_client.
C12_LoopsNeverStop ==
    /\ pc[SM] \in {"sm_103", "sm_105", "sm_110", "sm_114", "sm_117", "sm_120"}
    /\ pc[MC] \in {"mc_90", "mc_92"}

\* C17: the step of shutdown_monitor that issues the power-off command is
\* taken only while the idle duration, as of that moment, is above T_shutdown.
C17_TouchPreventsShutdown == [][PowerOffStep => now - timer > T_shutdown]_vars

\* the steps of a tick of shutdown_monitor: the readings (lines 105-107), the
\* evaluation of the shutdown condition (line 110), of the idle condition
\* (line 120)
ReadStep == pc[SM] = "sm_105" /\ pc'[SM] # "sm_105"
ShutdownEvalStep == pc[SM] = "sm_110" /\ pc'[SM] # "sm_110"
IdleEvalStep == pc[SM] = "sm_120" /\ pc'[SM] # "sm_120"

\* C13: in every tick of shutdown_monitor the idle condition is evaluated
\* first, right after the readings, and the shutdown condition after it; a
\* tick that issues the power-off command has forced idle before (the idle
\* flag is set), so that both actions occur in that tick.
C13_IdleThenShutdown ==
    [][/\ ReadStep => pc'[SM] = "sm_120"
       /\ IdleEvalStep => pc'[SM] = "sm_110"
       /\ ShutdownEvalStep => pc'[SM] \in {"sm_114", "sm_103"}
       /\ PowerOffStep => idle_mode_active /\ pc'[SM] = "sm_103"]_vars

\* the lines of a run of capture_image, update_timer included, and the
\* order in which control may pass from one to the next
CaptureLines ==
    {"cap_132", "cap_133", "ut_65", "ut_66", "cap_136", "cap_144", "cap_148",
     "cap_155", "cap_162"}

CaptureOrder ==
    {<<"cap_132", "cap_133">>, <<"cap_133", "ut_65">>, <<"ut_65", "ut_66">>,
     <<"ut_66", "cap_136">>, <<"cap_136", "cap_144">>, <<"cap_144", "cap_148">>,
     <<"cap_148", "cap_155">>, <<"cap_148", "cap_162">>,
     <<"cap_155", "cap_162">>, <<"cap_162", "idle">>}

\* C14, in every state: a pipeline past the touch has stored last_ping; it
\* holds the camera lock exactly during autofocus and still capture, so not
\* before the LED was switched on and not in the final step.
C14_PipelineState ==
    \A w \in Workers :
        /\ pc[w] \in {"ut_65", "ut_66", "cap_136", "cap_144", "cap_148",
                      "cap_155", "cap_162"} => client_status.last_ping # None
        /\ pc[w] \in CaptureLines => (camera_lock = w <=> pc[w] \in {"cap_148", "cap_155"})

\* C14, in every step of a pipeline: control follows the order refresh,
\* touch, LED on, acquire, autofocus, still capture, release, LED off; the
\* refresh stores the time of the step, the touch sets timer; the LED is
\* switched on by the step before the acquire, and switched off only by the
\* final step, which is taken without the camera lock.
C14_PipelineStep ==
    [][\A w \in Workers :
          (pc[w] \in CaptureLines /\ pc'[w] # pc[w]) =>
              /\ <<pc[w], pc'[w]>> \in CaptureOrder
              /\ pc[w] = "cap_133" => client_status'.last_ping = now
              /\ pc[w] = "ut_66" => timer' = now
              /\ pc[w] = "cap_136" => ledc'
              /\ pc[w] # "cap_136" /\ pc[w] # "cap_162" => ledc' = ledc
              /\ pc[w] = "cap_162" => ~ledc' /\ camera_lock # w /\ camera_lock' # w]_vars

\* C14: every run of capture_image performs refresh and touch, LED on,
\* acquire, autofocus, still capture, release, LED off in this order, and the
\* LED-off step never happens while the pipeline holds the camera lock.
C14_CaptureOrder == []C14_PipelineState /\ C14_PipelineStep

\* a pipeline has focused and captured, has released the camera lock, which
\* nobody holds now, and its LED is still on before the final step
C14_Witness ==
    \E w \in Workers :
        /\ pc[w] = "cap_162"
        /\ success[w] = "ok" /\ still[w] = "ok"
        /\ ledc
        /\ camera_lock = NoThread

\* C16: a streaming producer holds the camera lock exactly while it is in
\* the frame grab (line 258): not while it waits for the lock, sleeps on an
\* empty frame, encodes, or is suspended at the yield, and not after the
\* generator has ended.  So whenever no thread is inside a camera section,
\* the lock is free and every thread that waits for the camera can take it,
\* wherever the streams stand.
C16_StreamHoldsOnlyForGrab ==
    /\ \A w \in Workers :
           pc[w] \in {"idle", "gen_257", "gen_258", "gen_261", "gen_265", "gen_270"}
               => (camera_lock = w <=> pc[w] = "gen_258")
    /\ (\A t \in Workers : ~InCamera(t)) =>
           /\ Free(camera_lock)
           /\ \A w \in Workers : pc[w] = "cap_144" => ENABLED cap_144(w)
           /\ \A w \in Workers : pc[w] = "gen_257" => ENABLED gen_257(w)

\* one stream is suspended at its yield, another sleeps on an empty frame,
\* and a capture pipeline has the camera
C16_Witness ==
    \E u, v, w \in Workers :
        /\ pc[u] = "gen_270"
        /\ pc[v] = "gen_261"
        /\ pc[w] = "cap_148" /\ camera_lock = w

\* the step of a user toggle: led1.toggle() or led2.toggle() of a toggle
\* route or of an LED button callback
ToggleStep ==
    \E w \in Workers :
        pc[w] \in {"tog1_237", "tog2_243"} /\ pc'[w] # pc[w]

\* a status LED is switched on
LedOnStep == (~led1 /\ led1') \/ (~led2 /\ led2')

\* the step of shutdown_monitor that enters Idle
IdleEntryStep == IdleEvalStep /\ idle_due /\ ~idle_mode_active

\* C15 as stated: the step that enters Idle leaves both status LEDs off, and
\* a status LED is switched on only by the step of a user toggle, never by
\* shutdown_monitor.
C15_LedsOffUntilToggle ==
    [][/\ IdleEntryStep => ~led1' /\ ~led2'
       /\ LedOnStep => ToggleStep]_vars

\* C15, amended: the step that enters Idle leaves both status LEDs off; the
\* evaluation of the idle condition never switches a status LED on, also not
\* when it clears the idle flag; a status LED is switched on only by a user
\* toggle or by a toggle of the warning blink of a shutdown tick.
C15_LedsOffUntilToggleOrWarning ==
    [][/\ IdleEntryStep => ~led1' /\ ~led2' /\ idle_mode_active'
       /\ IdleEvalStep => ~LedOnStep
       /\ LedOnStep => ToggleStep \/ WarningStep]_vars

\* Idle was entered, a touch has ended the idle episode, and the evaluator is
\* about to clear the idle flag with both status LEDs off
C15_Witness ==
    /\ pc[SM] = "sm_120"
    /\ idle_mode_active /\ ~idle_due
    /\ ~led1 /\ ~led2

\* the number of locks thread t holds
HeldBy(t) ==
    (IF state_lock = t THEN 1 ELSE 0) + (IF camera_lock = t THEN 1 ELSE 0)
        + (IF blink_lock = t THEN 1 ELSE 0)

\* the next statement of thread t
StepOf(t) ==
    IF t = SM THEN shutdown_monitor
    ELSE IF t = MC THEN monitor_client
    ELSE IF t \in Workers
         THEN ping(t) \/ capture_image(t) \/ update_timer(t) \/ generate_frames(t)
         ELSE blink_led(t)

\* thread t stands at an acquire of a lock that another thread holds
Waiting(t) ==
    \/ pc[t] \in {"ut_65", "ping_169", "cap_132"} /\ ~Free(state_lock)
    \/ t \in {SM, MC} /\ ~Asleep(t) /\ pc[t] \in {"sm_103", "mc_90"}
                      /\ ~Free(state_lock)
    \/ pc[t] \in {"cap_144", "gen_257"} /\ ~Free(camera_lock)

\* the last line of each with state_lock block: the next statement of the
\* thread leaves the block
StateLockExits == {"ut_66", "ping_170", "cap_133", "sm_105", "mc_92"}

\* C18: in every state no thread holds two of the three locks; a thread that
\* holds a lock is not waiting for a lock and its next statement can be
\* executed, so whenever a thread waits for a lock, the holder can proceed;
\* the holder of state_lock stands at the last line of its with block, the
\* holder of camera_lock inside a camera call, the holder of blink_lock in its
\* blink sequence.
C18_NoNestedLocks ==
    \A t \in Threads :
        /\ HeldBy(t) <= 1
        /\ HeldBy(t) = 1 => ~Waiting(t) /\ ENABLED StepOf(t)
        /\ state_lock = t => pc[t] \in StateLockExits
        /\ camera_lock = t => InCamera(t)
        /\ blink_lock = t => InSequence(t)

\* all three locks are held, by three threads, and shutdown_monitor waits
\* for state_lock
C18_Witness ==
    /\ state_lock = Handler /\ pc[Handler] = "ping_170"
    /\ camera_lock = Streamer
    /\ blink_lock \in Blinkers
    /\ Waiting(SM)

\* a capture pipeline is in progress in thread w
InPipeline(w) ==
    \/ pc[w] \in {"cap_132", "cap_133", "cap_136", "cap_144", "cap_148",
                  "cap_155", "cap_162"}
    \/ pc[w] \in {"ut_65", "ut_66"} /\ ret[w] = "cap_136"

\* C19: whenever no blink sequence and no capture pipeline is in progress,
\* the indicator LED is off.
C19_IndicatorOffAtRest ==
    ((\A b \in Blinkers : ~InSequence(b)) /\ (\A w \in Workers : ~InPipeline(w)))
        => ~ledc

\* a blink sequence has switched the LED off and a capture pipeline, which
\* is in its autofocus, has switched it on again since
C19_Witness ==
    \E b \in Blinkers, w \in Workers :
        /\ pc[b] = "blink_77" /\ blink_i[b] > 0
        /\ pc[w] = "cap_148"
        /\ ledc

\* a step that sets client_status['status'] from true to false
DemoteStep == client_status.status /\ ~client_status'.status

\* C20, in every state: while monitor_client is inside its with state_lock
\* block, no ping() and no capture_image is inside the block in which it
\* stores last_ping, and the other way round.
C20_WritersExcluded ==
    /\ pc[MC] = "mc_92" => state_lock = MC
    /\ \A w \in Workers : pc[w] \in {"ping_170", "cap_133"} => state_lock = w

\* C20, in every step: status is set to false only by the step of
\* monitor_client, taken under state_lock, and only when the last_ping stored
\* at that moment is more than T_timeout old at that moment.
C20_DemoteStep ==
    [][DemoteStep =>
          /\ MonitorStep
          /\ state_lock = MC
          /\ client_status.last_ping # None
          /\ now - client_status.last_ping > T_timeout
          /\ client_status'.last_ping = client_status.last_ping]_vars

\* C20: monitor_client demotes only a client whose most recent last_ping is
\* more than T_timeout old at the instant of the demotion; no ping() comes
\* between its check and its write.
C20_NoFreshDemotion == []C20_WritersExcluded /\ C20_DemoteStep

\* monitor_client is about to demote a connected client whose last ping has
\* timed out, and a new ping() of that client waits for state_lock
C20_Witness ==
    /\ pc[MC] = "mc_92"
    /\ client_status.status /\ timed_out
    /\ pc[Handler] = "ping_169"

=============================================================================
